---- MODULE Spec2Model ----
(***************************************************************************)
(* A model of kremlib/kremstr.c: the native implementations of             *)
(* FStar.String.strlen, FStar.String.strcat, Prims.strcat and              *)
(* FStar.HyperStack.IO.print_string, together with the C library           *)
(* primitives they forward to (strlen, calloc, strcat, printf "%s"),       *)
(* modelled byte by byte over a heap of buffers.                           *)
(*                                                                         *)
(* A byte is 0 (the terminator NUL) or a character of Chars.  A pointer is *)
(* NULL (0) or the index of a buffer of the heap.  The caller owns two     *)
(* (three in SpecAssoc) terminated strings when the program starts and     *)
(* passes only pointers to valid terminated strings.                       *)
(* kremstr.c keeps no state of its own: the state is the C heap, the       *)
(* output stream and the position and locals of the call in progress.      *)
(***************************************************************************)
EXTENDS Integers, Sequences, FiniteSets, TLC

VARIABLES
    heap,     \* heap[p]: the bytes of the buffer pointer p designates
    prov,     \* prov[p]: <<>> for a caller-supplied buffer, <<a, b>> for the
              \*          buffer FStar_String_strcat(a, b) returned
    out,      \* the characters handed to standard output so far
    pc,       \* "idle", a line of kremstr.c, "ret", "crashed" or "undefined"
    fn,       \* the entry point the caller invoked
    arg,      \* parameter s of FStar_String_strlen / print_string
    q0, q1,   \* parameters s0, s1 of Prims_strcat
    s0, s1,   \* parameters s0, s1 of FStar_String_strcat
    dest,     \* local dest of FStar_String_strcat
    size,     \* the byte count passed to calloc
    ret,      \* the value returned to the caller
    ncalloc,  \* calls to calloc made since the caller's current call began
    overrun,  \* TRUE once a copy wrote outside the buffer it was given
    step,     \* position of the scripted caller of SpecAssoc (0 under Spec)
    printed   \* history: the pointers print_string was called with, in order

vars == <<heap, prov, out, pc, fn, arg, q0, q1, s0, s1, dest, size, ret,
          ncalloc, overrun, step, printed>>

\* ------------------------------------------------------------------ bounds
MaxLen == 2       \* bytes of a caller-supplied buffer of Spec; characters
                  \* of a caller-supplied string of SpecAssoc
MaxTrace == 4     \* buffers on the heap plus strings printed, under Spec
SizeBits == 4     \* width of size_t (scaled down)

Chars == {1, 2}
NUL == 0
NULL == 0

SIZE_MOD == 2 ^ SizeBits
\* No object is larger than PTRDIFF_MAX bytes (the C library refuses larger
\* requests and the compiler assumes it of every object).
PTRDIFF_MAX == 2 ^ (SizeBits - 1) - 1

Min(x, y) == IF x <= y THEN x ELSE y

\* --------------------------------------------------------- abstract values
\* The buffer holds a terminated string.
IsString(b) == \E k \in 1..Len(b) : b[k] = NUL

\* The string a terminated buffer holds: the characters before the first NUL.
Str(b) ==
    LET k == CHOOSE k \in 1..Len(b) :
                 b[k] = NUL /\ \A j \in 1..(k - 1) : b[j] # NUL
    IN  SubSeq(b, 1, k - 1)

Zeros(n) == [i \in 1..n |-> NUL]

\* The strings of at most n characters, each in a buffer of exactly its
\* length plus one.
CharSeqsUpTo(n) == UNION {[1..m -> Chars] : m \in 0..n}
Tight(n) == {Append(s, NUL) : s \in CharSeqsUpTo(n)}

\* What a buffer may hold after its string's terminator: nothing, or a stale
\* character.
Slack == {<<>>, <<1>>}

\* The buffers the caller of Spec may own: at most MaxLen bytes, a terminated
\* string and then the slack.  No object is larger than PTRDIFF_MAX.
InputBuffers ==
    {b \in {s \o k : s \in Tight(MaxLen - 1), k \in Slack} :
        Len(b) <= Min(MaxLen, PTRDIFF_MAX)}

\* The buffers the caller of SpecAssoc may own: the strings of at most MaxLen
\* characters, without slack.
TightBuffers == Tight(Min(MaxLen, PTRDIFF_MAX - 1))

None == [kind |-> "none", val |-> 0]
Nat_(n) == [kind |-> "nat", val |-> n]
Ptr(p) == [kind |-> "ptr", val |-> p]
Void == [kind |-> "void", val |-> 0]

\* ------------------------------------------------------------ C library
\* strlen: scan from the first byte to the first NUL.
RECURSIVE c_strlen_from(_, _)
c_strlen_from(b, i) == IF b[i] = NUL THEN 0 ELSE 1 + c_strlen_from(b, i + 1)

c_strlen(b) == c_strlen_from(b, 1)

\* size_t arithmetic
SizeT(n) == n % SIZE_MOD

\* strcat(dest, src): find dest's terminator, then copy src's bytes over it,
\* one at a time, up to and including src's terminator.  d is the destination
\* buffer, at the next index to write, j the next index of s to read.  The
\* result records the bytes written inside the buffer and whether a byte was
\* written outside it.
RECURSIVE c_copy(_, _, _, _, _)
c_copy(d, at, s, j, over) ==
    LET inside == at <= Len(d)
        d2 == IF inside THEN [d EXCEPT ![at] = s[j]] ELSE d
        over2 == over \/ ~inside
    IN  IF s[j] = NUL
        THEN [bytes |-> d2, overrun |-> over2, last |-> at]
        ELSE c_copy(d2, at + 1, s, j + 1, over2)

c_strcat(d, s) ==
    IF IsString(d)
    THEN c_copy(d, c_strlen(d) + 1, s, 1, FALSE)
    ELSE [bytes |-> d, overrun |-> TRUE, last |-> Len(d) + 1]

\* printf("%s", s): put the characters of s before its terminator, in order.
RECURSIVE c_printf_s(_, _, _)
c_printf_s(o, b, i) ==
    IF b[i] = NUL THEN o ELSE c_printf_s(Append(o, b[i]), b, i + 1)

\* ------------------------------------------------------------ kremstr.c
Live == 1..Len(heap)

\* line 19: the argument of calloc, computed in size_t
AllocSizeNoTerminator(l0, l1) == SizeT(l0 + l1)

AllocSize(l0, l1) == SizeT(l0 + l1 + 1)

\* calloc(n, 1): no memory (NULL), or a fresh buffer of n zero bytes.  A
\* request above PTRDIFF_MAX is always refused.
CallocOutcomes(n) ==
    {[p |-> NULL, heap |-> heap]}
    \cup (IF n <= PTRDIFF_MAX
          THEN {[p |-> Len(heap) + 1, heap |-> Append(heap, Zeros(n))]}
          ELSE {})

\* lines 19-20: dest is used unchecked, whatever calloc returned
AfterCallocChecked(d) == IF d = NULL THEN "L22" ELSE "L20"

AfterCalloc(d) == "L20"

\* lines 20, 21: the source of the first and of the second copy
FirstSrcSwapped(a, b) == b

FirstSrc(a, b) == a

SecondSrcTypo(a, b) == a

SecondSrc(a, b) == b

\* line 22: the pointer returned
ReturnedShortcut(d, a, b) ==
    IF d # NULL /\ c_strlen(heap[b]) = 0 THEN a ELSE d

Returned(d, a, b) == d

\* line 26: the arguments Prims_strcat forwards
ForwardedSwapped(a, b) == <<b, a>>

Forwarded(a, b) == <<a, b>>

\* line 15: the value FStar_String_strlen returns
StrlenResultSizeof(b) == c_strlen(b) + 1

StrlenResult(b) == c_strlen(b)

\* line 30: what print_string hands to standard output
PrintedWithTerminator(o, b) == Append(c_printf_s(o, b, 1), NUL)

Printed(o, b) == c_printf_s(o, b, 1)

\* strcat(dest, src) as a step of FStar_String_strcat.  With dest = NULL the
\* behaviour is undefined: the process is killed, or (address 0 mapped) the
\* bytes land outside every object and execution goes on.  A copy that runs
\* past the end of dest is undefined as well: the process is killed, or the
\* bytes land in whatever follows the buffer; execution is not followed
\* further in that case.
StrcatOutcomes(d, src, next) ==
    IF d = NULL
    THEN {[pc |-> "crashed", heap |-> heap, overrun |-> overrun],
          [pc |-> next, heap |-> heap, overrun |-> overrun]}
    ELSE LET r == c_strcat(heap[d], heap[src])
         IN  IF r.overrun
             THEN {[pc |-> "crashed", heap |-> heap, overrun |-> TRUE],
                   [pc |-> "undefined", heap |-> [heap EXCEPT ![d] = r.bytes],
                    overrun |-> TRUE]}
             ELSE {[pc |-> next, heap |-> [heap EXCEPT ![d] = r.bytes],
                    overrun |-> overrun]}

\* The caller of Spec stops once the heap's buffers and the strings printed
\* number MaxTrace.
Budget == Len(heap) + Len(printed) < MaxTrace /\ step = 0

\* FStar_String_strlen(s), lines 14-16
FStar_String_strlen(a) ==
    /\ pc = "idle" /\ step = 0
    /\ fn' = "FStar_String_strlen" /\ arg' = a
    /\ ret' = Nat_(StrlenResult(heap[a]))
    /\ pc' = "ret"
    /\ ncalloc' = 0
    /\ UNCHANGED <<heap, prov, out, q0, q1, s0, s1, dest, size, overrun,
                   step, printed>>

\* FStar_HyperStack_IO_print_string(s), lines 29-31
FStar_HyperStack_IO_print_string(a) ==
    /\ pc = "idle" /\ Budget
    /\ fn' = "FStar_HyperStack_IO_print_string" /\ arg' = a
    /\ out' = Printed(out, heap[a])
    /\ ret' = Void
    /\ pc' = "ret"
    /\ printed' = Append(printed, a)
    /\ ncalloc' = 0
    /\ UNCHANGED <<heap, prov, q0, q1, s0, s1, dest, size, overrun, step>>

\* the caller enters FStar_String_strcat(a, b), line 18
Enter_FStar_String_strcat(a, b) ==
    /\ fn' = "FStar_String_strcat"
    /\ s0' = a /\ s1' = b
    /\ pc' = "L19"
    /\ ncalloc' = 0
    /\ UNCHANGED <<heap, prov, out, arg, q0, q1, dest, size, ret, overrun,
                   printed>>

Call_FStar_String_strcat(a, b) ==
    /\ pc = "idle" /\ Budget
    /\ Enter_FStar_String_strcat(a, b)
    /\ UNCHANGED step

\* the caller enters Prims_strcat(a, b), line 25
Call_Prims_strcat(a, b) ==
    /\ pc = "idle" /\ Budget
    /\ fn' = "Prims_strcat"
    /\ q0' = a /\ q1' = b
    /\ pc' = "L26"
    /\ ncalloc' = 0
    /\ UNCHANGED <<heap, prov, out, arg, s0, s1, dest, size, ret, overrun,
                   step, printed>>

\* line 26: Prims_strcat calls FStar_String_strcat(s0, s1)
Prims_strcat_forward ==
    /\ pc = "L26"
    /\ s0' = Forwarded(q0, q1)[1] /\ s1' = Forwarded(q0, q1)[2]
    /\ pc' = "L19"
    /\ UNCHANGED <<heap, prov, out, fn, arg, q0, q1, dest, size, ret,
                   ncalloc, overrun, step, printed>>

\* line 19: char *dest = calloc(strlen(s0) + strlen(s1) + 1, 1);
Strcat_calloc ==
    /\ pc = "L19"
    /\ LET n == AllocSize(c_strlen(heap[s0]), c_strlen(heap[s1]))
       IN  /\ size' = n
           /\ \E o \in CallocOutcomes(n) :
                 /\ dest' = o.p
                 /\ heap' = o.heap
                 /\ prov' = IF o.p = NULL THEN prov ELSE Append(prov, <<>>)
                 /\ pc' = AfterCalloc(o.p)
    /\ ncalloc' = ncalloc + 1
    /\ UNCHANGED <<out, fn, arg, q0, q1, s0, s1, ret, overrun, step, printed>>

\* line 20: strcat(dest, s0);
Strcat_copy0 ==
    /\ pc = "L20"
    /\ \E o \in StrcatOutcomes(dest, FirstSrc(s0, s1), "L21") :
          /\ pc' = o.pc /\ heap' = o.heap /\ overrun' = o.overrun
    /\ UNCHANGED <<prov, out, fn, arg, q0, q1, s0, s1, dest, size, ret,
                   ncalloc, step, printed>>

\* line 21: strcat(dest, s1);
Strcat_copy1 ==
    /\ pc = "L21"
    /\ \E o \in StrcatOutcomes(dest, SecondSrc(s0, s1), "L22") :
          /\ pc' = o.pc /\ heap' = o.heap /\ overrun' = o.overrun
    /\ UNCHANGED <<prov, out, fn, arg, q0, q1, s0, s1, dest, size, ret,
                   ncalloc, step, printed>>

\* line 22 (and, under Prims_strcat, the return of line 26)
Strcat_return ==
    /\ pc = "L22"
    /\ ret' = Ptr(Returned(dest, s0, s1))
    /\ prov' = IF dest = NULL THEN prov ELSE [prov EXCEPT ![dest] = <<s0, s1>>]
    /\ pc' = "ret"
    /\ UNCHANGED <<heap, out, fn, arg, q0, q1, s0, s1, dest, size, ncalloc,
                   overrun, step, printed>>

\* the caller takes the result; the frame of the call is gone
Resume ==
    /\ pc = "ret"
    /\ pc' = "idle"
    /\ fn' = "none" /\ arg' = NULL /\ q0' = NULL /\ q1' = NULL
    /\ s0' = NULL /\ s1' = NULL /\ dest' = NULL /\ size' = 0 /\ ret' = None
    /\ UNCHANGED <<heap, prov, out, ncalloc, overrun, step, printed>>

Frame0 ==
    /\ out = <<>> /\ pc = "idle" /\ fn = "none"
    /\ arg = NULL /\ q0 = NULL /\ q1 = NULL /\ s0 = NULL /\ s1 = NULL
    /\ dest = NULL /\ size = 0 /\ ret = None
    /\ ncalloc = 0 /\ overrun = FALSE /\ printed = <<>>

Init ==
    /\ \E a, b \in InputBuffers : heap = <<a, b>>
    /\ prov = <<<<>>, <<>>>>
    /\ step = 0
    /\ Frame0

Next ==
    \/ \E a \in Live : FStar_String_strlen(a)
    \/ \E a \in Live : FStar_HyperStack_IO_print_string(a)
    \/ \E a, b \in Live : Call_FStar_String_strcat(a, b)
    \/ \E a, b \in Live : Call_Prims_strcat(a, b)
    \/ Prims_strcat_forward
    \/ Strcat_calloc
    \/ Strcat_copy0
    \/ Strcat_copy1
    \/ Strcat_return
    \/ Resume

Spec == Init /\ [][Next]_vars

\* ------------------------------------------------- the associativity caller
\* A caller that owns three strings a, b, c (pointers 1, 2, 3) and computes
\*   x = strcat(a, b); l = strcat(x, c); y = strcat(b, c); r = strcat(a, y)
\* stopping at the first call that does not return a buffer.
Script == << <<1, 2>>, <<4, 3>>, <<2, 3>>, <<1, 6>> >>

Assoc_call ==
    /\ pc = "idle"
    /\ step \in DOMAIN Script
    /\ Len(heap) = 2 + step
    /\ Enter_FStar_String_strcat(Script[step][1], Script[step][2])
    /\ step' = step + 1

InitAssoc ==
    /\ \E a, b, c \in TightBuffers : heap = <<a, b, c>>
    /\ prov = <<<<>>, <<>>, <<>>>>
    /\ step = 1
    /\ Frame0

NextAssoc ==
    \/ Assoc_call
    \/ Strcat_calloc
    \/ Strcat_copy0
    \/ Strcat_copy1
    \/ Strcat_return
    \/ Resume

SpecAssoc == InitAssoc /\ [][NextAssoc]_vars

\* ================================================================== claims
StrcatFns == {"FStar_String_strcat", "Prims_strcat"}

\* FStar_String_strcat is about to hand its result to its caller.
StrcatReturns == pc = "ret" /\ fn \in StrcatFns

\* The returned pointer designates a terminated string whose characters are
\* those of s0 followed by those of s1.
ReturnsConcatenation ==
    /\ ret.kind = "ptr"
    /\ ret.val \in Live
    /\ IsString(heap[ret.val])
    /\ Str(heap[ret.val]) = Str(heap[s0]) \o Str(heap[s1])

C1_AliasedCallReturned ==
    StrcatReturns /\ dest # NULL /\ s0 = s1 /\ Str(heap[s0]) # <<>>

\* C2: FStar_String_strlen(s) returns the number of characters before the
\* first terminator of s; the result is non-negative and 0 for the empty
\* string.
C2_StrlenCountsToFirstTerminator ==
    (pc = "ret" /\ fn = "FStar_String_strlen") =>
        /\ ret.kind = "nat"
        /\ ret.val = Len(Str(heap[arg]))
        /\ ret.val >= 0
        /\ (Str(heap[arg]) = <<>> => ret.val = 0)
        /\ \A i \in 1..ret.val : heap[arg][i] # NUL
        /\ heap[arg][ret.val + 1] = NUL

\* C2 witness: strlen returned for a buffer that holds a character after its
\* first terminator.
C2_Witness ==
    /\ pc = "ret" /\ fn = "FStar_String_strlen"
    /\ \E i, j \in 1..Len(heap[arg]) :
          i < j /\ heap[arg][i] = NUL /\ heap[arg][j] # NUL

\* The lengths FStar_String_strlen reports for the arguments of the call.
ArgLengths == StrlenResult(heap[s0]) + StrlenResult(heap[s1])

C4_LeftIdentityReached ==
    /\ StrcatReturns /\ dest # NULL
    /\ Str(heap[s0]) = <<>> /\ Str(heap[s1]) # <<>>

\* x is strcat(strcat(a, b), c) and y is strcat(a, strcat(b, c)) for strings
\* a, b, c of the same contents.
Reassociated(x, y) ==
    /\ prov[x] # <<>> /\ prov[y] # <<>>
    /\ prov[prov[x][1]] # <<>> /\ prov[prov[y][2]] # <<>>
    /\ Str(heap[prov[prov[x][1]][1]]) = Str(heap[prov[y][1]])
    /\ Str(heap[prov[prov[x][1]][2]]) = Str(heap[prov[prov[y][2]][1]])
    /\ Str(heap[prov[x][2]]) = Str(heap[prov[prov[y][2]][2]])

SameContents ==
    \A x, y \in Live : Reassociated(x, y) => Str(heap[x]) = Str(heap[y])

FirstNul(b) ==
    CHOOSE k \in 1..Len(b) : b[k] = NUL /\ \A j \in 1..(k - 1) : b[j] # NUL

InStrcatBody == fn \in StrcatFns /\ pc \in {"L20", "L21", "L22", "ret"}

\* C6: the buffer FStar_String_strcat(s0, s1) returns is allocated with
\* exactly strlen(s0) + strlen(s1) + 1 bytes, all initially zero; every byte
\* the two copies write (terminators included) falls inside it, and after the
\* second copy the terminator is the buffer's last byte.
C6_BufferExactlyFits ==
    /\ ~overrun
    /\ (pc \in {"crashed", "undefined"} => dest = NULL)
    /\ (InStrcatBody /\ dest # NULL) =>
          /\ size = Len(Str(heap[s0])) + Len(Str(heap[s1])) + 1
          /\ Len(heap[dest]) = size
          /\ pc = "L20" => heap[dest] = Zeros(size)
          /\ pc = "L21" => FirstNul(heap[dest]) = Len(Str(heap[s0])) + 1
          /\ pc \in {"L22", "ret"} => FirstNul(heap[dest]) = Len(heap[dest])

\* C6 witness: both copies were made into the buffer, from non-empty strings.
C6_Witness ==
    /\ pc = "L22" /\ dest # NULL
    /\ Str(heap[s0]) # <<>> /\ Str(heap[s1]) # <<>>

\* The characters of the strings at the pointers of ps, in order.
RECURSIVE Flat(_)
Flat(ps) == IF ps = <<>> THEN <<>> ELSE Str(heap[Head(ps)]) \o Flat(Tail(ps))

\* C7: FStar_HyperStack_IO_print_string(s) appends exactly the characters of
\* s to standard output, no newline and no terminator; after any sequence of
\* calls the stream holds the printed strings in call order and nothing else.
C7_OutputIsPrintedStrings ==
    /\ out = Flat(printed)
    /\ \A i \in 1..Len(out) : out[i] \in Chars

\* C7 witness: two different non-empty strings were printed.
C7_Witness ==
    /\ Len(printed) = 2
    /\ Str(heap[printed[1]]) # <<>> /\ Str(heap[printed[2]]) # <<>>
    /\ Str(heap[printed[1]]) # Str(heap[printed[2]])

\* C8: Prims_strcat(s0, s1) is FStar_String_strcat(s0, s1): the arguments are
\* passed in the same order, what FStar_String_strcat returns is returned,
\* with the same contents, and the only effect is the one call to calloc.
C8_PrimsForwards ==
    fn = "Prims_strcat" =>
        /\ pc \in {"L19", "L20", "L21", "L22", "ret"} => s0 = q0 /\ s1 = q1
        /\ pc \in {"L26", "L19"} => ncalloc = 0
        /\ InStrcatBody => ncalloc = 1
        /\ pc = "ret" =>
              /\ ret = Ptr(dest)
              /\ dest # NULL => Str(heap[dest]) = Str(heap[q0]) \o Str(heap[q1])

\* C8 witness: Prims_strcat returned the buffer for two different strings.
C8_Witness ==
    /\ fn = "Prims_strcat" /\ pc = "ret" /\ dest # NULL
    /\ Str(heap[q0]) # Str(heap[q1])

\* C9: when calloc returns no memory, FStar_String_strcat neither checks nor
\* signals it: from line 19 control goes to the copy of line 20 with the null
\* dest, then to the copy of line 21 (unless the process is killed), and no
\* other state is entered.
C9_NullNotChecked ==
    [][/\ (pc = "L19" /\ dest' = NULL) => pc' = "L20"
       /\ (pc = "L20" /\ dest = NULL) => pc' \in {"L21", "crashed"}
       /\ (pc = "L21" /\ dest = NULL) => pc' \in {"L22", "crashed"}
       /\ (pc = "L22" /\ dest = NULL) => pc' = "ret" /\ ret' = Ptr(NULL)
       /\ (pc \in {"L20", "L21", "L22"} /\ dest = NULL) => heap' = heap]_vars

\* C9 witness: after a failed allocation the first copy was made through the
\* null pointer and the second is next.
C9_Witness == pc = "L21" /\ dest = NULL /\ fn \in StrcatFns

\* Effects every step respects: only FStar_String_strcat changes the heap,
\* and only by allocating one buffer at line 19 and writing that buffer at
\* lines 20 and 21; only print_string changes the output stream.
FrameStep ==
    /\ \A p \in Live :
          heap'[p] # heap[p] =>
              /\ fn \in StrcatFns /\ pc \in {"L20", "L21"}
              /\ p = dest /\ p \notin {s0, s1}
              /\ prov[p] = <<>> /\ p = Len(heap) /\ ncalloc = 1
    /\ Len(heap') # Len(heap) =>
          /\ fn \in StrcatFns /\ pc = "L19" /\ ncalloc = 0
          /\ Len(heap') = Len(heap) + 1
    /\ out' # out =>
          pc = "idle" /\ fn' = "FStar_HyperStack_IO_print_string"
    /\ (pc' = "ret" /\ fn' \notin StrcatFns) => ncalloc' = 0

\* The pointer FStar_String_strcat returns is the one buffer the call
\* allocated: neither input and no buffer returned before.
ReturnsFresh ==
    /\ ncalloc = 1
    /\ ret'.val \in Live
    /\ ret'.val = Len(heap)
    /\ ret'.val \notin {s0, s1}
    /\ prov[ret'.val] = <<>>

====
